---- MODULE Spec2Model ----
(***************************************************************************)
(* A model of the gene-expression prediction backend: CSV ingestion        *)
(* (utils/csv_processor.py), the four mock prediction models (models/),    *)
(* the variance ranking (utils/stats_helper.py) and the request handlers   *)
(* with their in-memory cache (app.py).                                    *)
(*                                                                         *)
(* Numbers.  A gene value is a float in the code.  Here it is a fixed-point*)
(* integer in units of 1/Scale, with Scale the least common multiple of    *)
(* 1..MaxRows, so that the mean of up to MaxRows present values (the       *)
(* imputation of process_csv) is exact.  Results of float arithmetic that  *)
(* can be not-a-number or infinite are records [k, v] with k one of        *)
(* "fin", "nan", "inf" (v is the sign of an infinity).                     *)
(***************************************************************************)
EXTENDS Integers, Sequences, FiniteSets, TLC

\* ------------------------------------------------------------- bounds
MaxRows == 2
MaxGenes == 2
MaxRankCols == 3
MaxVal == 1
MaxKeys == 1
MaxClockKeys == 2
MaxTicks == 3
MaxCalls == 2
MaxThreads == 2
MaxServed == 2
MaxFiles == 2

\* ------------------------------------------------ program constants
HashModSvm == 100
HashModSeed == 1000
SvmCut == 50
NNMaxFeatures == 10
NTrees == 10
CACHE_EXPIRATION_SECONDS == 3600
TopN == 10
PreviewGenes == 5

\* ---------------------------------------------------- small helpers
Min(a, b) == IF a < b THEN a ELSE b
Max(a, b) == IF a > b THEN a ELSE b
Abs(a) == IF a < 0 THEN -a ELSE a
Sign(a) == IF a < 0 THEN -1 ELSE IF a > 0 THEN 1 ELSE 0

\* Division of floats carried as integers: truncation toward zero.
DivT(a, b) == Sign(a) * Sign(b) * (Abs(a) \div Abs(b))

RECURSIVE Gcd(_, _)
Gcd(a, b) == IF b = 0 THEN a ELSE Gcd(b, a % b)

RECURSIVE LcmUpTo(_)
LcmUpTo(n) == IF n <= 1 THEN 1 ELSE LET l == LcmUpTo(n - 1) IN (l * n) \div Gcd(l, n)

Scale == LcmUpTo(MaxRows)

RECURSIVE SumSeq(_)
SumSeq(s) == IF s = <<>> THEN 0 ELSE Head(s) + SumSeq(Tail(s))

RECURSIVE Flatten(_)
Flatten(ss) == IF ss = <<>> THEN <<>> ELSE Head(ss) \o Flatten(Tail(ss))

Prefix(s, n) == SubSeq(s, 1, Min(n, Len(s)))

Dot(a, b) == SumSeq([j \in 1..Min(Len(a), Len(b)) |-> a[j] * b[j]])

\* floor(sqrt(n)) by bisection
RECURSIVE ISqrtIn(_, _, _)
ISqrtIn(n, lo, hi) ==
    IF lo >= hi THEN lo
    ELSE LET mid == (lo + hi + 1) \div 2
         IN IF mid * mid <= n THEN ISqrtIn(n, mid, hi) ELSE ISqrtIn(n, lo, mid - 1)

ISqrt(n) == ISqrtIn(n, 0, Min(n, 46340))

\* floats that may be non-finite
Fin(v) == [k |-> "fin", v |-> v]
NaN == [k |-> "nan", v |-> 0]
Inf(s) == [k |-> "inf", v |-> s]

\* ------------------------------------------------------ CSV ingestion
\* A parsed cell of the uploaded text: a numeral, an empty field, or text.
Num(n) == [t |-> "num", v |-> n]
NA == [t |-> "na", v |-> 0]
Txt(i) == [t |-> "txt", v |-> i]

TextNames == <<"p1", "p2", "p3", "p4">>
NumNames == <<"0", "1", "2", "3">>
HeaderNames == <<"A", "B", "C", "D", "E", "F">>

\* pandas' dtype inference on a parsed column: numeric unless some field is text
IsNumericDtype(col) == \A i \in 1..Len(col) : col[i].t # "txt"

\* first_col.astype(str): an object column keeps each field's own text
AsStr(c) ==
    IF c.t = "txt" THEN TextNames[c.v]
    ELSE IF c.t = "num" THEN NumNames[c.v + 1]
    ELSE "nan"

Column(rows, j) == [i \in 1..Len(rows) |-> rows[i][j]]

\* pd.to_numeric(col, errors='coerce'): text becomes a missing value and the
\* call does not raise
ToNumericCoerce(col) ==
    [raised |-> FALSE,
     col |-> [i \in 1..Len(col) |-> IF col[i].t = "txt" THEN NA ELSE col[i]]]

\* df.mean() of a column skips the missing values; fillna(mean) then fillna(0)
FillNa(col) ==
    LET present == SelectSeq(col, LAMBDA c : c.t = "num")
        total == SumSeq([i \in 1..Len(present) |-> present[i].v * Scale])
    IN [i \in 1..Len(col) |->
          IF col[i].t = "num" THEN col[i].v * Scale
          ELSE IF Len(present) > 0 THEN total \div Len(present)
          ELSE 0]

NoIds == [has |-> FALSE, ids |-> <<>>]
SomeIds(s) == [has |-> TRUE, ids |-> s]
EmptyDf == [columns |-> <<>>, rows |-> <<>>]

IngestError(msg, cols) ==
    [ok |-> FALSE, error |-> msg, error_columns |-> cols, df |-> EmptyDf, patient_ids |-> NoIds]

\* CSVProcessor.process_csv on a parsed table [header, rows]
process_csv(table) ==
    LET n == Len(table.rows)
        c == Len(table.header)
        has_patient_ids == ~IsNumericDtype(Column(table.rows, 1))
        patient_ids == IF has_patient_ids
                       THEN SomeIds([i \in 1..n |-> AsStr(table.rows[i][1])])
                       ELSE NoIds
        first == IF has_patient_ids THEN 2 ELSE 1
        names == SubSeq(table.header, first, c)
        cols == [j \in 1..(c - first + 1) |-> Column(table.rows, j + first - 1)]
        coerced == [j \in 1..Len(cols) |->
                      IF IsNumericDtype(cols[j])
                      THEN [raised |-> FALSE, col |-> cols[j]]
                      ELSE ToNumericCoerce(cols[j])]
        bad == {j \in 1..Len(cols) : coerced[j].raised}
        non_numeric_cols == SelectSeq(names, LAMBDA nm : \E j \in bad : names[j] = nm)
        filled == [j \in 1..Len(cols) |-> FillNa(coerced[j].col)]
        df == [columns |-> names,
               rows |-> [i \in 1..n |-> [j \in 1..Len(cols) |-> filled[j][i]]]]
    IN IF n = 0 \/ c = 0 THEN IngestError("CSV file is empty", <<>>)
       ELSE IF non_numeric_cols # <<>>
            THEN IngestError("Non-numeric data found in gene columns", non_numeric_cols)
       ELSE IF Len(names) < 1 THEN IngestError("CSV must have at least 1 gene column", <<>>)
       ELSE [ok |-> TRUE, error |-> "", error_columns |-> <<>>, df |-> df,
             patient_ids |-> patient_ids]

\* ------------------------------------------------ hashing and numpy.random
\* Python's hash of a tuple of floats: a fixed function of the values in order.
\* (CPython's is an xxHash variant on 64-bit words; here a polynomial hash.)
RECURSIVE HashAcc(_, _)
HashAcc(t, acc) ==
    IF t = <<>> THEN acc
    ELSE HashAcc(Tail(t), (acc * 31 + Head(t) * 17 + 7) % 1009)

PyHash(t) == HashAcc(t, Len(t) + 3)

\* The process-wide generator of numpy.random is one integer of state.
\* np.random.seed(s) sets it from s alone; each draw advances it.
RngStates == 0..15
NpSeed(s) == (s * 7 + 5) % 16
RngStep(g) == (g * 5 + 3) % 16

\* one standard-normal draw, quantised to halves and never exactly zero
RandnValue(g) == <<-3, -2, -1, 1, 2, 3>>[((g \div 3) % 6) + 1]

\* np.random.randn(k) from generator state g: the k values and the state after
RECURSIVE Randn(_, _)
Randn(g, k) ==
    IF k = 0 THEN [vals |-> <<>>, rng |-> g]
    ELSE LET g1 == RngStep(g)
             rest == Randn(g1, k - 1)
         IN [vals |-> <<RandnValue(g1)>> \o rest.vals, rng |-> rest.rng]

Remove(s, i) == SubSeq(s, 1, i - 1) \o SubSeq(s, i + 1, Len(s))

\* np.random.choice(n, k, replace=False): k distinct positions of 1..n
RECURSIVE ChooseFrom(_, _, _)
ChooseFrom(g, pool, k) ==
    IF k = 0 \/ pool = <<>> THEN [vals |-> <<>>, rng |-> g]
    ELSE LET g1 == RngStep(g)
             i == (g1 % Len(pool)) + 1
             rest == ChooseFrom(g1, Remove(pool, i), k - 1)
         IN [vals |-> <<pool[i]>> \o rest.vals, rng |-> rest.rng]

Choice(g, n, k) == ChooseFrom(g, [j \in 1..n |-> j], k)

\* ------------------------------------------------------ float arithmetic
\* 1 / (1 + exp(-x)) for x in thousandths, in ten-thousandths: the table holds
\* the values at 0, 0.5, 1, ..., 8 and is interpolated linearly in between.
SigmoidTable ==
    <<5000, 6225, 7311, 8176, 8808, 9241, 9526, 9707, 9820,
      9890, 9933, 9959, 9975, 9985, 9991, 9994, 9997>>

SigmoidPos(x) ==
    IF x >= 37000 THEN 10000
    ELSE IF x >= 8000 THEN 9999
    ELSE LET i == (x \div 500) + 1
             lo == SigmoidTable[i]
             hi == SigmoidTable[i + 1]
         IN lo + ((hi - lo) * (x % 500)) \div 500

\* the float cases: exp(-inf) = 0, exp(inf) = inf, anything with nan is nan
Sigmoid(f) ==
    IF f.k = "nan" THEN NaN
    ELSE IF f.k = "inf" THEN Fin(IF f.v > 0 THEN 10000 ELSE 0)
    ELSE IF f.v >= 0 THEN Fin(SigmoidPos(f.v)) ELSE Fin(10000 - SigmoidPos(-f.v))

\* a > b on floats: every comparison with nan is false
FloatGt(f, b) == f.k # "nan" /\ f.v > b

\* base + |f - 0.5| * factor/10, in ten-thousandths
Confidence(f, base, factor) ==
    IF f.k = "nan" THEN NaN ELSE Fin(base + (Abs(f.v - 5000) * factor) \div 10)

\* numpy's float64 division x / y for finite x, y >= 0 (a warning, no exception):
\* x/0 is an infinity of x's sign and 0/0 is nan.  num/den is the finite case's
\* quotient in thousandths.
FloatDiv(x, yIsZero, num, den) ==
    IF yIsZero THEN (IF x = 0 THEN NaN ELSE Inf(Sign(x)))
    ELSE Fin(DivT(num, den))

\* ------------------------------------------------------------ the models
\* SVMModel._predict_logic
SVMPredictLogic(data, g) ==
    LET h(i) == PyHash(data[i]) % HashModSvm
    IN [predictions |-> [i \in 1..Len(data) |-> IF h(i) > SvmCut THEN 1 ELSE 0],
        confidences |-> [i \in 1..Len(data) |-> Fin(6000 + h(i) * 35)],
        rng |-> g]

\* the generator state the weights are drawn from: np.random.seed(data_hash)
NNSeeded(data, g) == NpSeed(PyHash(data[1]) % HashModSeed)

\* n * sum(x^2) - sum(x)^2 = (n * np.std(x))^2
SpreadSq(row) == Len(row) * SumSeq([j \in 1..Len(row) |-> row[j] * row[j]]) - SumSeq(row) * SumSeq(row)

\* NeuralNetworkModel._predict_logic, lines 35-48: the rows under the weights
NNFromWeights(data, weights) ==
    LET n_genes == Len(data[1])
        n_features == Min(NNMaxFeatures, n_genes)
        weighted_sum(i) == Dot(Prefix(data[i], n_features), weights)
        \* weighted_sum / np.std(data[i]), weights being in halves
        ratio(i) == FloatDiv(weighted_sum(i), SpreadSq(data[i]) = 0,
                             weighted_sum(i) * n_genes * 500 * 100,
                             ISqrt(SpreadSq(data[i]) * 10000))
        sigmoid_value(i) == Sigmoid(ratio(i))
    IN [predictions |-> [i \in 1..Len(data) |->
                           IF FloatGt(sigmoid_value(i), 5000) THEN 1 ELSE 0],
        confidences |-> [i \in 1..Len(data) |-> Confidence(sigmoid_value(i), 5500, 8)]]

\* NeuralNetworkModel._predict_logic
NNPredictLogic(data, g) ==
    LET drawn == Randn(NNSeeded(data, g), Min(NNMaxFeatures, Len(data[1])))
        ran == NNFromWeights(data, drawn.vals)
    IN [predictions |-> ran.predictions, confidences |-> ran.confidences, rng |-> drawn.rng]

\* the generator state patient i's trees draw from: np.random.seed(data_hash + i)
RFSeeded(data, i, g) == NpSeed((PyHash(Prefix(Flatten(data), 100)) % HashModSeed) + (i - 1))

\* lines 46-49: one tree's vote on a row, given the genes it selected
RFTreePred(row, selected_genes) ==
    LET tree_sum == SumSeq([j \in 1..Len(selected_genes) |-> row[selected_genes[j]]])
    \* tree_mean > overall_mean
    IN IF tree_sum * Len(row) > SumSeq(row) * Len(selected_genes) THEN 1 ELSE 0

\* lines 53-57: labels and confidences from the patients' vote counts
RFFromVotes(votes) ==
    [predictions |-> [i \in 1..Len(votes) |-> IF 2 * votes[i] > NTrees THEN 1 ELSE 0],
     \* 0.55 + |votes / n_trees - 0.5| * 0.8
     confidences |-> [i \in 1..Len(votes) |->
                        Fin(5500 + (Abs(2 * votes[i] - NTrees) * 4000) \div NTrees)]]

\* the votes of the trees of one patient, and the generator state after them
RECURSIVE RFTrees(_, _, _)
RFTrees(row, g, trees) ==
    IF trees = 0 THEN [votes |-> 0, rng |-> g]
    ELSE LET n_genes == Len(row)
             n_features == Max(1, n_genes \div 3)
             sel == Choice(g, n_genes, n_features)
             tree_pred == RFTreePred(row, sel.vals)
             rest == RFTrees(row, sel.rng, trees - 1)
         IN [votes |-> tree_pred + rest.votes, rng |-> rest.rng]

\* RandomForestModel._predict_logic
RandomForestPredictLogic(data, g) ==
    LET forest(i) == RFTrees(data[i], RFSeeded(data, i, g), NTrees)
        ran == RFFromVotes([i \in 1..Len(data) |-> forest(i).votes])
    IN [predictions |-> ran.predictions, confidences |-> ran.confidences,
        rng |-> forest(Len(data)).rng]

\* (mutant) the coefficients drawn from the generator as the last call left it
LRUnseeded(data, g) == g

\* the generator state the coefficients are drawn from: np.random.seed(data_hash)
LRSeeded(data, g) == NpSeed(PyHash(Prefix(data[1], 50)) % HashModSeed)

\* LogisticRegressionModel._predict_logic, lines 35-50: the rows under the
\* coefficients and the intercept
LRFromDraws(data, coefficients, intercept) ==
    LET \* dot(x, randn * 0.1) + randn * 0.5 in thousandths, randn being in halves
        linear_combination(i) ==
            DivT(Dot(data[i], coefficients) * 50, Scale) + intercept * 250
        logit_value(i) == Sigmoid(Fin(linear_combination(i)))
    IN [predictions |-> [i \in 1..Len(data) |->
                           IF FloatGt(logit_value(i), 5000) THEN 1 ELSE 0],
        confidences |-> [i \in 1..Len(data) |-> Confidence(logit_value(i), 5500, 8)]]

\* LogisticRegressionModel._predict_logic
LogisticRegressionPredictLogic(data, g) ==
    LET drawn == Randn(LRSeeded(data, g), Len(data[1]))
        drawn2 == Randn(drawn.rng, 1)
        ran == LRFromDraws(data, drawn.vals, drawn2.vals[1])
    IN [predictions |-> ran.predictions, confidences |-> ran.confidences, rng |-> drawn2.rng]

\* Config.AVAILABLE_MODELS / MODELS
MODELS == {"svm", "neural_network", "random_forest", "logistic_regression"}

PredictLogic(model, data, g) ==
    IF model = "svm" THEN SVMPredictLogic(data, g)
    ELSE IF model = "neural_network" THEN NNPredictLogic(data, g)
    ELSE IF model = "random_forest" THEN RandomForestPredictLogic(data, g)
    ELSE LogisticRegressionPredictLogic(data, g)

\* ------------------------------------------------------- BaseModel.predict
RECURSIVE InsertSorted(_, _)
InsertSorted(s, v) ==
    IF s = <<>> THEN <<v>>
    ELSE IF v <= Head(s) THEN <<v>> \o s
    ELSE <<Head(s)>> \o InsertSorted(Tail(s), v)

RECURSIVE SortAsc(_)
SortAsc(s) == IF s = <<>> THEN <<>> ELSE InsertSorted(SortAsc(Tail(s)), Head(s))

\* twice Series.median(): the middle value, or the mean of the two middle ones
TwiceMedian(col) ==
    LET s == SortAsc(col)
        n == Len(s)
    IN IF n % 2 = 1 THEN 2 * s[(n + 1) \div 2] ELSE s[n \div 2] + s[(n \div 2) + 1]

PatientNames == <<"patient_1", "patient_2", "patient_3", "patient_4">>

\* (mutant) identifiers counted from 0
SynthIdsFromZero(n) == [i \in 1..n |-> (<<"patient_0">> \o PatientNames)[i]]

\* [f"patient_{i+1}" for i in range(n)]
SynthIds(n) == [i \in 1..n |-> PatientNames[i]]

\* round(float(conf), 2): ten-thousandths to hundredths
Round2(f) == IF f.k = "fin" THEN Fin((f.v + 50) \div 100) ELSE f

\* (mutant) the median itself counted as below the median
EndotypeStrict(df, idx, pred) ==
    IF pred = 1
    THEN IF 2 * df.rows[idx][1] > TwiceMedian(Column(df.rows, 1))
         THEN "endotype_1" ELSE "endotype_2"
    ELSE "negative"

\* endotype of row idx of df given its prediction
Endotype(df, idx, pred) ==
    IF pred = 1
    THEN LET gene_median2 == IF Len(df.columns) > 0 THEN TwiceMedian(Column(df.rows, 1)) ELSE 0
             gene_value == IF Len(df.columns) > 0 THEN df.rows[idx][1] ELSE 0
         IN IF 2 * gene_value >= gene_median2 THEN "endotype_1" ELSE "endotype_2"
    ELSE "negative"

\* the identifiers of the records: the given ones, or patient_1.. when None
RecordIds(patient_ids, n) == IF patient_ids.has THEN patient_ids.ids ELSE SynthIds(n)

\* BaseModel.predict(df, patient_ids) of the model named model, the generator
\* being in state g: the result dictionary and the generator state after
BasePredict(model, df, patient_ids, g) ==
    LET logic == PredictLogic(model, df.rows, g)
        ids == RecordIds(patient_ids, Len(logic.predictions))
        \* zip stops at the shortest
        n == Min(Len(ids), Min(Len(logic.predictions), Len(logic.confidences)))
        results == [i \in 1..n |->
                      [patient_id |-> ids[i],
                       prediction |-> IF logic.predictions[i] = 1 THEN "yes" ELSE "no",
                       endotype |-> Endotype(df, i, logic.predictions[i]),
                       confidence |-> Round2(logic.confidences[i])]]
    IN [result |-> [success |-> TRUE, model_type |-> model,
                    patient_count |-> Len(results), predictions |-> results],
        rng |-> logic.rng]

\* ------------------------------------------------------- variance ranking
\* DataFrame.var(axis=0) of one column: the sample variance (ddof = 1), which is
\* nan for fewer than two rows.  The common factor 1 / (n (n - 1)) is left out.
ColumnVar(col) == IF Len(col) < 2 THEN NaN ELSE Fin(SpreadSq(col))

\* positions of a sequence of floats in descending order of value, positions of
\* equal values in ascending order
RECURSIVE DescOrder(_, _)
DescOrder(vals, left) ==
    IF left = {} THEN <<>>
    ELSE LET best == CHOOSE i \in left :
                        \A j \in left : vals[i].v > vals[j].v \/ (vals[i].v = vals[j].v /\ i <= j)
         IN <<best>> \o DescOrder(vals, left \ {best})

RECURSIVE AscList(_, _)
AscList(set, upto) ==
    IF upto = 0 THEN <<>>
    ELSE AscList(set, upto - 1) \o (IF upto \in set THEN <<upto>> ELSE <<>>)

\* (mutant) missing values left out of the result
NLargestDropNa(vals, n) ==
    IF n <= 0 THEN <<>>
    ELSE Prefix(DescOrder(vals, {i \in 1..Len(vals) : vals[i].k # "nan"}), n)

\* Series.nlargest(n), keep='first': the n largest values, the first occurrences
\* of equal values first; missing values come after all others, in their order
NLargest(vals, n) ==
    LET dropped == {i \in 1..Len(vals) : vals[i].k # "nan"}
        nan_index == AscList((1..Len(vals)) \ dropped, Len(vals))
    IN IF n <= 0 THEN <<>> ELSE Prefix(DescOrder(vals, dropped) \o nan_index, n)

\* calculate_top_variant_genes(df, n)
calculate_top_variant_genes(df, n) ==
    LET variances == [j \in 1..Len(df.columns) |-> ColumnVar(Column(df.rows, j))]
        top == NLargest(variances, n)
    IN [i \in 1..Len(top) |-> df.columns[top[i]]]

\* ------------------------------------------------------------ the server
VARIABLES
    cache,      \* PREPROCESSED_CACHE: cache key -> [df, patient_ids, timestamp]
    issued,     \* the cache keys uuid4 has produced so far
    returned,   \* the cache keys that responses have carried to clients
    now,        \* time.time(), in seconds
    ticks,      \* how often the clock has advanced
    rng,        \* the state of numpy's process-wide generator
    last,       \* the request being answered, with what its handler was given
    resp,       \* the response to it
    probe,      \* a model call, or a ranking call, under study
    out,        \* what the latest call of probe returned
    first,      \* what the first call of probe returned, and whether other calls followed
    calls,      \* how often probe has been called
    ranked,     \* what the ranking call returned
    threads,    \* the requests that worker threads are in the middle of
    disk        \* the temporary files, and what was done to them

vars == <<cache, issued, returned, now, ticks, rng, last, resp, probe, out, first, calls, ranked,
          threads, disk>>
serverVars == <<cache, issued, returned, now, ticks, last, resp>>
studyVars == <<probe, out, first, calls, ranked, threads, disk>>

Expired(entry, current_time) == current_time - entry.timestamp > CACHE_EXPIRATION_SECONDS

\* (mutant) no entry is ever removed
cleanup_nothing(c, current_time) == c

\* cleanup_old_cache() at time current_time
cleanup_old_cache(c, current_time) ==
    [key \in {k \in DOMAIN c : ~Expired(c[k], current_time)} |-> c[key]]

\* uuid.uuid4(): a key no earlier call has produced
FreshKey(used) ==
    CHOOSE k \in (1..(Cardinality(used) + 1)) \ used : \A j \in 1..k : j = k \/ j \in used

EmptyTable == [header |-> <<>>, rows |-> <<>>]
NoFile == [present |-> FALSE, filename |-> "", table |-> EmptyTable]
CsvFile(t) == [present |-> TRUE, filename |-> "data.csv", table |-> t]
NoFilter == [given |-> FALSE, ids |-> {}]
Filter(S) == [given |-> TRUE, ids |-> S]

NoResp ==
    [status |-> 0, success |-> FALSE, error_type |-> "", error |-> "",
     error_columns |-> <<>>, cache_key |-> 0, model_type |-> "", patient_count |-> 0,
     predictions |-> <<>>, preview_data |-> <<>>, gene_columns |-> <<>>,
     total_genes |-> 0, top_variant_genes |-> <<>>]

ErrorResp(status, type, msg) ==
    [NoResp EXCEPT !.status = status, !.error_type = type, !.error = msg]

NotUsed == [reached |-> FALSE, df |-> EmptyDf, patient_ids |-> NoIds]
Used(df, patient_ids) == [reached |-> TRUE, df |-> df, patient_ids |-> patient_ids]

\* the checks of the uploaded file that both upload handlers make
FileProblem(file) ==
    IF ~file.present THEN "No file provided"
    ELSE IF file.filename = "" THEN "No file selected"
    ELSE IF file.filename # "data.csv" THEN "File must be a CSV (.csv extension required)"
    ELSE ""

\* preprocess(), lines 165-196: what follows process_csv returning r.  c is the
\* cache after the sweep.
preprocess_stored(r, c, used, current_time) ==
    LET cache_key == FreshKey(used)
        stored == [key \in DOMAIN c \cup {cache_key} |->
                     IF key = cache_key
                     THEN [df |-> r.df, patient_ids |-> r.patient_ids,
                           timestamp |-> current_time]
                     ELSE c[key]]
        num_genes_to_show == Min(PreviewGenes, Len(r.df.columns))
    IN IF ~r.ok
       THEN [cache |-> c, issued |-> used,
             resp |-> [ErrorResp(400, "validation_error", r.error)
                         EXCEPT !.error_columns = r.error_columns]]
       ELSE IF ~r.patient_ids.has
       \* enumerate(patient_ids) of None raises TypeError, after the store
       THEN [cache |-> stored, issued |-> used \cup {cache_key},
             resp |-> ErrorResp(500, "server_error",
                                "An internal error occurred during preprocessing")]
       ELSE [cache |-> stored, issued |-> used \cup {cache_key},
             resp |-> [NoResp EXCEPT
                         !.status = 200, !.success = TRUE, !.cache_key = cache_key,
                         !.patient_count = Len(r.patient_ids.ids),
                         !.gene_columns = Prefix(r.df.columns, num_genes_to_show),
                         !.total_genes = Len(r.df.columns),
                         !.preview_data =
                            [i \in 1..Len(r.patient_ids.ids) |->
                               [patient_id |-> r.patient_ids.ids[i],
                                gene_data |-> Prefix(r.df.rows[i], num_genes_to_show)]]]]

\* preprocess(), lines 161-196: the work on the staged file
preprocess_staged(file, c, used, current_time) ==
    CHOOSE o \in {preprocess_stored(r, c, used, current_time) :
                    r \in {process_csv(file.table)}} : TRUE

\* the preprocess handler
preprocess(file, c, used, current_time) ==
    LET swept == cleanup_old_cache(c, current_time)
    IN IF FileProblem(file) # ""
       THEN [cache |-> swept, issued |-> used,
             resp |-> ErrorResp(400, "validation_error", FileProblem(file))]
       ELSE preprocess_staged(file, swept, used, current_time)

\* predict(), lines 374-391: the model's result ran, enriched
Enriched(ran, df, patient_ids) ==
    LET results == ran.result
    IN [resp |-> [NoResp EXCEPT
                    !.status = 200, !.success = results.success,
                    !.model_type = results.model_type,
                    !.patient_count = results.patient_count,
                    !.predictions = results.predictions,
                    !.gene_columns = df.columns,
                    !.top_variant_genes = calculate_top_variant_genes(df, TopN)],
        rng |-> ran.rng,
        used |-> Used(df, patient_ids)]

\* predict(), lines 370-372: the model called on the frame
RunModel(model_type, df, patient_ids, g) ==
    CHOOSE o \in {Enriched(ran, df, patient_ids) :
                    ran \in {BasePredict(model_type, df, patient_ids, g)}} : TRUE

Failed(c, g, r) == [cache |-> c, rng |-> g, resp |-> r, used |-> NotUsed]

\* "if selected_patient_ids:" of a JSON list or of None
Truthy(selected_patient_ids) == selected_patient_ids.given /\ selected_patient_ids.ids # {}

\* [i for i, pid in enumerate(patient_ids) if pid in selected_patient_ids]
SelectedIndices(ids, wanted) ==
    SelectSeq([i \in 1..Len(ids) |-> i], LAMBDA i : ids[i] \in wanted)

\* predict(), lines 288-306: the entry read, filtered by the selection
ReadCached(entry, selected_patient_ids) ==
    LET selected_indices == SelectedIndices(entry.patient_ids.ids, selected_patient_ids.ids)
    IN IF ~Truthy(selected_patient_ids)
       THEN [outcome |-> "ok", df |-> entry.df, patient_ids |-> entry.patient_ids]
       ELSE IF ~entry.patient_ids.has
       \* enumerate(patient_ids) of None raises TypeError
       THEN [outcome |-> "raised", df |-> EmptyDf, patient_ids |-> NoIds]
       ELSE IF selected_indices = <<>>
       THEN [outcome |-> "no_match", df |-> EmptyDf, patient_ids |-> NoIds]
       ELSE [outcome |-> "ok",
             df |-> [columns |-> entry.df.columns,
                     rows |-> [i \in 1..Len(selected_indices) |->
                                 entry.df.rows[selected_indices[i]]]],
             patient_ids |-> SomeIds([i \in 1..Len(selected_indices) |->
                                        entry.patient_ids.ids[selected_indices[i]]])]

ModelProblem(model_type) ==
    IF model_type = "" THEN "No model type specified"
    ELSE IF model_type \notin MODELS THEN "Invalid model type"
    ELSE ""

\* predict(), lines 288-306 and on: the frame got from the cache, predicted
predict_got(req, swept, got, g) ==
    IF got.outcome = "raised"
    THEN Failed(swept, g, ErrorResp(500, "server_error",
                  "An internal error occurred during prediction"))
    ELSE IF got.outcome = "no_match"
    THEN Failed(swept, g, ErrorResp(400, "validation_error",
                  "No valid patient IDs found in selection"))
    ELSE [cache |-> swept] @@ RunModel(req.model_type, got.df, got.patient_ids, g)

\* predict(), lines 281-306: the lookup in the cache swept after the sweep
predict_swept(req, swept, g) ==
    IF req.cache_key \notin DOMAIN swept
    THEN Failed(swept, g, ErrorResp(400, "cache_error", "Cache expired or invalid"))
    ELSE CHOOSE o \in {predict_got(req, swept, got, g) :
                         got \in {ReadCached(swept[req.cache_key], req.patient_ids)}} : TRUE

\* the predict handler on a JSON request (cached mode); cache_key 0 is no key
predict_cached(req, c, current_time, g) ==
    IF req.cache_key = 0
    THEN Failed(c, g, ErrorResp(400, "validation_error", "No cache key provided"))
    ELSE IF ModelProblem(req.model_type) # ""
    THEN Failed(c, g, ErrorResp(400, "validation_error", ModelProblem(req.model_type)))
    ELSE CHOOSE o \in {predict_swept(req, swept, g) :
                         swept \in {cleanup_old_cache(c, current_time)}} : TRUE

\* predict(), lines 358-372: what follows process_csv returning r
predict_parsed(req, c, r, g) ==
    IF ~r.ok
    THEN Failed(c, g, [ErrorResp(400, "validation_error", r.error)
                         EXCEPT !.error_columns = r.error_columns])
    ELSE [cache |-> c] @@ RunModel(req.model_type, r.df, r.patient_ids, g)

\* the predict handler on a form upload (direct mode)
predict_direct(req, c, g) ==
    IF ~req.file.present
    THEN Failed(c, g, ErrorResp(400, "validation_error", "No file provided"))
    ELSE IF ModelProblem(req.model_type) # ""
    THEN Failed(c, g, ErrorResp(400, "validation_error", ModelProblem(req.model_type)))
    ELSE IF FileProblem(req.file) # ""
    THEN Failed(c, g, ErrorResp(400, "validation_error", FileProblem(req.file)))
    ELSE CHOOSE o \in {predict_parsed(req, c, r, g) :
                         r \in {process_csv(req.file.table)}} : TRUE

\* ------------------------------------------------------ requests (inputs)
\* an upload of Len(vals) patients with one gene, with or without an id column
UploadTable(withIds, vals) ==
    [header |-> Prefix(HeaderNames, IF withIds THEN 2 ELSE 1),
     rows |-> [i \in 1..Len(vals) |->
                 IF withIds THEN <<Txt(i), Num(vals[i])>> ELSE <<Num(vals[i])>>]]

\* one patient with an id and two gene columns, of which some hold text
TextTables ==
    {[header |-> Prefix(HeaderNames, 3), rows |-> <<<<Txt(1), a, b>>>>] :
        a \in {Num(MaxVal), Txt(2)}, b \in {Txt(2)}}

Uploads ==
    {UploadTable(w, vals) :
        w \in BOOLEAN, vals \in UNION {[1..n -> 0..MaxVal] : n \in 0..MaxRows}}
    \cup TextTables

BadFiles ==
    {NoFile, [NoFile EXCEPT !.present = TRUE],
     [NoFile EXCEPT !.present = TRUE, !.filename = "data.txt"]}

Files == BadFiles \cup {CsvFile(t) : t \in Uploads}

FilterIds == {TextNames[i] : i \in 1..MaxRows} \cup {"zz"}
Filters == {NoFilter} \cup {Filter(S) : S \in SUBSET FilterIds}

CachedRequests(keys) ==
    {[cache_key |-> k, model_type |-> m, patient_ids |-> f] :
        k \in keys, m \in MODELS, f \in Filters}
    \cup {[cache_key |-> k, model_type |-> m, patient_ids |-> NoFilter] :
            k \in keys \cup {0}, m \in {"", "bogus", "svm"}}

DirectRequests ==
    {[file |-> f, model_type |-> m] : f \in Files, m \in MODELS}
    \cup {[file |-> f, model_type |-> m] : f \in {NoFile, CsvFile(UploadTable(TRUE, <<0>>))},
                                           m \in {"", "bogus"}}

\* the requests of the clock specification: little data, more keys and time
ClockFiles == {NoFile} \cup {CsvFile(UploadTable(w, <<MaxVal>>)) : w \in BOOLEAN}

ClockRequests(keys) ==
    {[cache_key |-> k, model_type |-> m, patient_ids |-> NoFilter] :
        k \in keys, m \in {"svm", "bogus"}}

\* --------------------------------------------------------------- actions
KeyStatus(c, key, current_time) ==
    IF key \notin DOMAIN c THEN "absent"
    ELSE IF Expired(c[key], current_time) THEN "expired"
    ELSE "live"

\* what the state keeps of a request: its inputs, the keys cached and the state
\* of its key when it arrived, and the matrix its handler gave to the model
Request(op) ==
    [op |-> op, file |-> NoFile, model_type |-> "", cache_key |-> 0,
     patient_ids |-> NoFilter, pre |-> "none", stored |-> {}, used |-> NotUsed]

Idle == last.op = "idle"

NoCall == [model |-> "", df |-> EmptyDf, n |-> 0]
NoResult == [success |-> FALSE, model_type |-> "", patient_count |-> 0, predictions |-> <<>>]
NoOut == [result |-> NoResult, others |-> 0]

\* no request in the middle of its handler; no temporary file yet
NoThreads == <<>>
NoDisk == [files |-> {}, created |-> {}, attempted |-> {}, warnings |-> 0]

ServerInit ==
    /\ cache = <<>>
    /\ issued = {}
    /\ returned = {}
    /\ now = 0
    /\ ticks = 0
    /\ last = Request("idle")
    /\ resp = NoResp

StudyInit ==
    /\ probe = NoCall
    /\ out = NoOut
    /\ first = NoOut
    /\ calls = 0
    /\ ranked = <<>>
    /\ threads = NoThreads
    /\ disk = NoDisk

Init == ServerInit /\ StudyInit /\ rng = 0

\* POST /api/preprocess; at most maxKeys keys are ever handed out
Preprocess(file, maxKeys) ==
    /\ Idle
    /\ (FileProblem(file) = "" /\ process_csv(file.table).ok) => Cardinality(issued) < maxKeys
    /\ \E o \in {preprocess(file, cache, issued, now)} :
          /\ cache' = o.cache
          /\ issued' = o.issued
          /\ returned' = IF o.resp.success THEN returned \cup {o.resp.cache_key} ELSE returned
          /\ resp' = o.resp
    /\ last' = [Request("preprocess") EXCEPT !.file = file, !.stored = DOMAIN cache]
    /\ UNCHANGED <<now, ticks, rng>>
    /\ UNCHANGED studyVars

\* POST /api/predict with a JSON body.  A client names a key a response gave
\* it, or one it made up, which is none that uuid4 has produced.
PredictCached(req) ==
    /\ Idle
    /\ req.cache_key \in issued => req.cache_key \in returned
    /\ \E o \in {predict_cached(req, cache, now, rng)} :
          /\ cache' = o.cache
          /\ rng' = o.rng
          /\ resp' = o.resp
          /\ last' = [Request("predict_cached") EXCEPT
                        !.model_type = req.model_type, !.cache_key = req.cache_key,
                        !.patient_ids = req.patient_ids,
                        !.pre = KeyStatus(cache, req.cache_key, now),
                        !.stored = DOMAIN cache,
                        !.used = o.used]
    /\ UNCHANGED <<issued, returned, now, ticks>>
    /\ UNCHANGED studyVars

\* POST /api/predict with a form upload
PredictDirect(req) ==
    /\ Idle
    /\ \E o \in {predict_direct(req, cache, rng)} :
          /\ cache' = o.cache
          /\ rng' = o.rng
          /\ resp' = o.resp
          /\ last' = [Request("predict_direct") EXCEPT
                        !.model_type = req.model_type, !.file = req.file,
                        !.stored = DOMAIN cache, !.used = o.used]
    /\ UNCHANGED <<issued, returned, now, ticks>>
    /\ UNCHANGED studyVars

\* the response leaves; the next request can be taken
SendResponse ==
    /\ ~Idle
    /\ last' = Request("idle")
    /\ resp' = NoResp
    /\ UNCHANGED <<cache, issued, returned, now, ticks, rng>>
    /\ UNCHANGED studyVars

\* the clock advances by d seconds between two requests
Tick(d) ==
    /\ Idle
    /\ ticks < MaxTicks
    /\ now' = now + d
    /\ ticks' = ticks + 1
    /\ UNCHANGED <<cache, issued, returned, rng, last, resp>>
    /\ UNCHANGED studyVars

\* the requests in their variety, one cache key, the clock standing
Next ==
    \/ \E file \in Files : Preprocess(file, MaxKeys)
    \/ \E req \in CachedRequests(1..MaxKeys) : PredictCached(req)
    \/ \E req \in DirectRequests : PredictDirect(req)
    \/ SendResponse

Spec == Init /\ [][Next]_vars

\* few requests, several cache keys, the clock running
NextClock ==
    \/ \E file \in ClockFiles : Preprocess(file, MaxClockKeys)
    \/ \E req \in ClockRequests(1..MaxClockKeys) : PredictCached(req)
    \/ SendResponse
    \/ \E d \in {1, CACHE_EXPIRATION_SECONDS} : Tick(d)

SpecClock == Init /\ [][NextClock]_vars

\* ------------------------------------------------- the models on their own
\* every matrix of up to MaxRows patients and up to maxCols genes, its values the
\* numerals 0..MaxVal
Matrices(maxCols) ==
    UNION {{[columns |-> Prefix(HeaderNames, c), rows |-> [i \in 1..r |-> [j \in 1..c |-> m[i][j] * Scale]]] :
              m \in [1..r -> [1..c -> 0..MaxVal]]} :
           r \in 1..MaxRows, c \in 1..maxCols}

EngineCalls == {[model |-> m, df |-> df, n |-> 0] : m \in MODELS, df \in Matrices(MaxGenes)}

\* one matrix and one model under study, the generator in any state
InitEngine ==
    /\ ServerInit
    /\ rng \in RngStates
    /\ probe \in EngineCalls
    /\ out = NoOut
    /\ first = NoOut
    /\ calls = 0
    /\ ranked = <<>>
    /\ threads = NoThreads
    /\ disk = NoDisk

\* model.predict(df) of the call under study
EngineProbe ==
    /\ calls < MaxCalls
    /\ \E o \in {BasePredict(probe.model, probe.df, NoIds, rng)} :
          /\ out' = [result |-> o.result, others |-> first.others]
          /\ first' = IF calls = 0 THEN [result |-> o.result, others |-> 0] ELSE first
          /\ rng' = o.rng
    /\ calls' = calls + 1
    /\ UNCHANGED <<probe, ranked, threads, disk>>
    /\ UNCHANGED serverVars

\* model.predict of any other call, between two calls of the one under study:
\* what it leaves behind is the generator
EngineOther(c) ==
    /\ c # probe
    /\ calls >= 1
    /\ calls < MaxCalls
    /\ rng' = PredictLogic(c.model, c.df.rows, rng).rng
    /\ first' = [first EXCEPT !.others = 1]
    /\ UNCHANGED <<probe, out, calls, ranked, threads, disk>>
    /\ UNCHANGED serverVars

NextEngine ==
    \/ EngineProbe
    \/ \E c \in EngineCalls : EngineOther(c)

SpecEngine == InitEngine /\ [][NextEngine]_vars

\* ------------------------------------------------- the ranking on its own
RankCalls ==
    {[model |-> "", df |-> df, n |-> n] :
        df \in Matrices(MaxRankCols), n \in (0..(MaxRankCols + 1)) \cup {TopN}}

InitRank ==
    /\ ServerInit
    /\ rng = 0
    /\ probe \in RankCalls
    /\ out = NoOut
    /\ first = NoOut
    /\ calls = 0
    /\ ranked = <<>>
    /\ threads = NoThreads
    /\ disk = NoDisk

Rank ==
    /\ calls = 0
    /\ ranked' = calculate_top_variant_genes(probe.df, probe.n)
    /\ calls' = 1
    /\ UNCHANGED <<probe, out, first, rng, threads, disk>>
    /\ UNCHANGED serverVars

NextRank == Rank

SpecRank == InitRank /\ [][NextRank]_vars

\* ------------------------------------------- the cache under worker threads
\* Flask's server answers each request on a thread of its own, and the handlers
\* take no lock: a thread can be suspended between any two operations on
\* PREPROCESSED_CACHE.  Each operation on the dict is one step.
Workers == 1..MaxThreads

\* what the threads' steps on the cache leave alone
threadRest == <<rng, last, resp, probe, out, first, calls, ranked, disk>>

IdleThread ==
    [op |-> "idle", pc |-> "idle", cache_key |-> 0, current_time |-> 0, size |-> 0,
     pos |-> 0, keys_to_delete |-> <<>>, outcome |-> "", served |-> 0]

\* a request arrives and a thread enters the handler
Start(t, op, key) ==
    /\ threads[t].pc = "idle"
    /\ threads[t].served < MaxServed
    /\ op = "preprocess" => (key = 0 /\ Cardinality(issued) < MaxClockKeys)
    /\ op = "predict" => (key \in issued => key \in returned)
    /\ threads' = [threads EXCEPT ![t] =
                     [IdleThread EXCEPT !.op = op, !.pc = "time", !.cache_key = key,
                                        !.served = threads[t].served]]
    /\ UNCHANGED <<cache, issued, returned, now, ticks>>
    /\ UNCHANGED threadRest

\* cleanup_old_cache(), line 42: current_time = time.time()
SweepTime(t) ==
    /\ threads[t].pc = "time"
    /\ threads' = [threads EXCEPT ![t].current_time = now, ![t].pc = "iter"]
    /\ UNCHANGED <<cache, issued, returned, now, ticks>>
    /\ UNCHANGED threadRest

\* line 44: PREPROCESSED_CACHE.items() is given to the comprehension, whose
\* iterator remembers the size of the dict
SweepIter(t) ==
    /\ threads[t].pc = "iter"
    /\ threads' = [threads EXCEPT ![t].size = Cardinality(DOMAIN cache),
                                  ![t].pos = 0, ![t].pc = "next"]
    /\ UNCHANGED <<cache, issued, returned, now, ticks>>
    /\ UNCHANGED threadRest

\* the keys the iterator has not come to: entries lie in insertion order, which
\* is the order of the keys
Ahead(t) == {k \in DOMAIN cache : k > threads[t].pos}

\* lines 43-46: the iterator's next item.  A dict whose size changed since the
\* iterator was made raises RuntimeError, which the handler answers with 500.
SweepNext(t) ==
    /\ threads[t].pc = "next"
    /\ threads' =
         IF Cardinality(DOMAIN cache) # threads[t].size
         THEN [threads EXCEPT ![t].outcome = "server_error", ![t].pc = "done"]
         ELSE IF Ahead(t) = {}
         THEN [threads EXCEPT ![t].pc = "delete"]
         ELSE LET key == CHOOSE k \in Ahead(t) : \A j \in Ahead(t) : k <= j
              IN [threads EXCEPT
                    ![t].pos = key,
                    ![t].keys_to_delete =
                        IF Expired(cache[key], threads[t].current_time)
                        THEN Append(threads[t].keys_to_delete, key)
                        ELSE threads[t].keys_to_delete]
    /\ UNCHANGED <<cache, issued, returned, now, ticks>>
    /\ UNCHANGED threadRest

\* lines 47-48: del PREPROCESSED_CACHE[key], which raises KeyError for a key
\* that is gone; after the last one the handler goes on
SweepDelete(t) ==
    /\ threads[t].pc = "delete"
    /\ IF threads[t].keys_to_delete = <<>>
       THEN /\ threads' = [threads EXCEPT ![t].pc =
                             IF threads[t].op = "preprocess" THEN "store" ELSE "check"]
            /\ cache' = cache
       ELSE LET key == Head(threads[t].keys_to_delete)
            IN IF key \notin DOMAIN cache
               THEN /\ threads' = [threads EXCEPT ![t].outcome = "server_error",
                                                  ![t].pc = "done"]
                    /\ cache' = cache
               ELSE /\ threads' = [threads EXCEPT
                                     ![t].keys_to_delete = Tail(threads[t].keys_to_delete)]
                    /\ cache' = [k \in DOMAIN cache \ {key} |-> cache[k]]
    /\ UNCHANGED <<issued, returned, now, ticks>>
    /\ UNCHANGED threadRest

\* preprocess(), lines 163-196: the entry (of an upload of one patient) is
\* stored under a fresh key, which the response carries
Store(t) ==
    /\ threads[t].pc = "store"
    /\ \E o \in {preprocess_stored(process_csv(UploadTable(TRUE, <<MaxVal>>)),
                                    cache, issued, now)} :
          /\ cache' = o.cache
          /\ issued' = o.issued
          /\ returned' = returned \cup {o.resp.cache_key}
    /\ threads' = [threads EXCEPT ![t].outcome = "ok", ![t].pc = "done"]
    /\ UNCHANGED <<now, ticks>>
    /\ UNCHANGED threadRest

\* predict(), lines 281-286: if cache_key not in PREPROCESSED_CACHE
Check(t) ==
    /\ threads[t].pc = "check"
    /\ threads' =
         IF threads[t].cache_key \notin DOMAIN cache
         THEN [threads EXCEPT ![t].outcome = "cache_error", ![t].pc = "done"]
         ELSE [threads EXCEPT ![t].pc = "read"]
    /\ UNCHANGED <<cache, issued, returned, now, ticks>>
    /\ UNCHANGED threadRest

\* predict(), line 288: cached_data = PREPROCESSED_CACHE[cache_key], which
\* raises KeyError for a key that is gone
Read(t) ==
    /\ threads[t].pc = "read"
    /\ threads' =
         IF threads[t].cache_key \notin DOMAIN cache
         THEN [threads EXCEPT ![t].outcome = "server_error", ![t].pc = "done"]
         ELSE [threads EXCEPT ![t].outcome = "ok", ![t].pc = "done"]
    /\ UNCHANGED <<cache, issued, returned, now, ticks>>
    /\ UNCHANGED threadRest

\* the response leaves and the thread is free again
Respond(t) ==
    /\ threads[t].pc = "done"
    /\ threads' = [threads EXCEPT ![t] =
                     [IdleThread EXCEPT !.served = threads[t].served + 1]]
    /\ UNCHANGED <<cache, issued, returned, now, ticks>>
    /\ UNCHANGED threadRest

\* the clock advances by d seconds, wherever the threads are
ThreadTick(d) ==
    /\ ticks < MaxTicks
    /\ now' = now + d
    /\ ticks' = ticks + 1
    /\ UNCHANGED <<cache, issued, returned, threads>>
    /\ UNCHANGED threadRest

InitThreads ==
    /\ ServerInit
    /\ rng = 0
    /\ probe = NoCall
    /\ out = NoOut
    /\ first = NoOut
    /\ calls = 0
    /\ ranked = <<>>
    /\ threads = [t \in Workers |-> IdleThread]
    /\ disk = NoDisk

NextThreads ==
    \/ \E t \in Workers : Start(t, "preprocess", 0)
    \/ \E t \in Workers : \E key \in 1..MaxClockKeys : Start(t, "predict", key)
    \/ \E t \in Workers : SweepTime(t)
    \/ \E t \in Workers : SweepIter(t)
    \/ \E t \in Workers : SweepNext(t)
    \/ \E t \in Workers : SweepDelete(t)
    \/ \E t \in Workers : Store(t)
    \/ \E t \in Workers : Check(t)
    \/ \E t \in Workers : Read(t)
    \/ \E t \in Workers : Respond(t)
    \/ \E d \in {1, CACHE_EXPIRATION_SECONDS} : ThreadTick(d)

SpecThreads == InitThreads /\ [][NextThreads]_vars

\* --------------------------------------- the generator under worker threads
\* numpy's generator is one per process.  A thread can be suspended between any
\* two calls of np.random; each such call is one step.
SeedOp(state) == [kind |-> "seed", state |-> state, n |-> 0, k |-> 0, row |-> 0]
RandnOp(n) == [kind |-> "randn", state |-> 0, n |-> n, k |-> 0, row |-> 0]
ChoiceOp(n, k, row) == [kind |-> "choice", state |-> 0, n |-> n, k |-> k, row |-> row]

\* the calls of np.random that model._predict_logic(data) makes, in order
GeneratorOps(model, data) ==
    LET n_genes == Len(data[1])
    IN IF model = "neural_network"
       THEN <<SeedOp(NNSeeded(data, 0)), RandnOp(Min(NNMaxFeatures, n_genes))>>
       ELSE IF model = "logistic_regression"
       THEN <<SeedOp(LRSeeded(data, 0)), RandnOp(n_genes), RandnOp(1)>>
       ELSE IF model = "random_forest"
       THEN [x \in 1..(Len(data) * (NTrees + 1)) |->
               LET i == ((x - 1) \div (NTrees + 1)) + 1
               IN IF (x - 1) % (NTrees + 1) = 0
                  THEN SeedOp(RFSeeded(data, i, 0))
                  ELSE ChoiceOp(n_genes, Max(1, n_genes \div 3), i)]
       ELSE <<>>

\* what _predict_logic returns, given what it drew
FromDraws(model, data, vals, votes) ==
    IF model = "neural_network" THEN NNFromWeights(data, vals)
    ELSE IF model = "logistic_regression"
    THEN LRFromDraws(data, SubSeq(vals, 1, Len(vals) - 1), vals[Len(vals)])
    ELSE IF model = "random_forest" THEN RFFromVotes(votes)
    ELSE [predictions |-> SVMPredictLogic(data, 0).predictions,
          confidences |-> SVMPredictLogic(data, 0).confidences]

\* the concurrent calls: any model, on a matrix of one patient
DrawCalls ==
    {[model |-> m, df |-> df] :
        m \in MODELS, df \in {x \in Matrices(MaxGenes) : Len(x.rows) = 1}}

\* a thread about to call model.predict(df)
DrawThread(call) ==
    [call |-> call, pc |-> 0, vals |-> <<>>,
     votes |-> [i \in 1..Len(call.df.rows) |-> 0], outcome |-> "",
     result |-> [predictions |-> <<>>, confidences |-> <<>>]]

\* what every step of a call leaves alone
drawRest == <<cache, issued, returned, now, ticks, last, resp, probe, out, first, calls,
              ranked, disk>>

\* base_model.py line 53: the thread enters _predict_logic
BeginCall(t) ==
    /\ threads[t].pc = 0
    /\ threads' = [threads EXCEPT ![t].pc = 1]
    /\ UNCHANGED rng
    /\ UNCHANGED drawRest

\* the thread's next call of np.random, on the generator as it is now
GeneratorStep(t) ==
    LET th == threads[t]
        ops == GeneratorOps(th.call.model, th.call.df.rows)
    IN /\ th.pc >= 1
       /\ th.pc <= Len(ops)
       /\ \E op \in {ops[th.pc]} :
             IF op.kind = "seed"
             THEN /\ rng' = op.state
                  /\ threads' = [threads EXCEPT ![t].pc = th.pc + 1]
             ELSE IF op.kind = "randn"
             THEN \E r \in {Randn(rng, op.n)} :
                     /\ rng' = r.rng
                     /\ threads' = [threads EXCEPT ![t].pc = th.pc + 1,
                                                   ![t].vals = th.vals \o r.vals]
             ELSE \E r \in {Choice(rng, op.n, op.k)} :
                     /\ rng' = r.rng
                     /\ threads' = [threads EXCEPT
                                      ![t].pc = th.pc + 1,
                                      ![t].votes[op.row] =
                                          th.votes[op.row]
                                          + RFTreePred(th.call.df.rows[op.row], r.vals)]
       /\ UNCHANGED drawRest

\* _predict_logic returns its labels and confidences
Return(t) ==
    LET th == threads[t]
    IN /\ th.pc = Len(GeneratorOps(th.call.model, th.call.df.rows)) + 1
       /\ th.outcome = ""
       /\ threads' = [threads EXCEPT
                        ![t].outcome = "ok",
                        ![t].result = FromDraws(th.call.model, th.call.df.rows,
                                                th.vals, th.votes)]
       /\ UNCHANGED rng
       /\ UNCHANGED drawRest

InitDraws ==
    /\ ServerInit
    /\ rng = 0
    /\ probe = NoCall
    /\ out = NoOut
    /\ first = NoOut
    /\ calls = 0
    /\ ranked = <<>>
    /\ threads \in [Workers -> {DrawThread(c) : c \in DrawCalls}]
    /\ disk = NoDisk

NextDraws ==
    \/ \E t \in Workers : BeginCall(t)
    \/ \E t \in Workers : GeneratorStep(t)
    \/ \E t \in Workers : Return(t)

SpecDraws == InitDraws /\ [][NextDraws]_vars

\* ------------------------------------------------- the staged upload file
\* tempfile.NamedTemporaryFile(delete=False): a file under a path not used before
StageFile(d) ==
    [d EXCEPT !.files = d.files \cup {Cardinality(d.created) + 1},
              !.created = d.created \cup {Cardinality(d.created) + 1}]

\* the finally block: os.remove(tmp_path) of the file staged last, whose failure
\* is logged as a warning
RemoveFile(d, remove_fails) ==
    LET tmp_path == Cardinality(d.created)
    IN IF remove_fails
       THEN [d EXCEPT !.attempted = d.attempted \cup {tmp_path}, !.warnings = d.warnings + 1]
       ELSE [d EXCEPT !.attempted = d.attempted \cup {tmp_path},
                      !.files = d.files \ {tmp_path}]

\* POST /api/preprocess with its temporary file: file.save(tmp.name) may raise
\* (save_fails), which leaves the handler through "except Exception" before the
\* try block of the finally is entered, and os.remove may raise (remove_fails)
StagedPreprocess(file, save_fails, remove_fails) ==
    /\ Idle
    /\ Cardinality(disk.created) < MaxFiles
    /\ (FileProblem(file) = "" /\ ~save_fails /\ process_csv(file.table).ok)
          => Cardinality(issued) < MaxKeys
    /\ \E o \in {preprocess(file, cache, issued, now)} :
          IF FileProblem(file) # ""
          THEN /\ cache' = o.cache /\ issued' = o.issued /\ returned' = returned
               /\ resp' = o.resp
               /\ disk' = disk
          ELSE IF save_fails
          THEN /\ cache' = cleanup_old_cache(cache, now)
               /\ issued' = issued /\ returned' = returned
               /\ resp' = ErrorResp(500, "server_error",
                                    "An internal error occurred during preprocessing")
               /\ disk' = StageFile(disk)
          ELSE /\ cache' = o.cache /\ issued' = o.issued
               /\ returned' = IF o.resp.success THEN returned \cup {o.resp.cache_key}
                              ELSE returned
               /\ resp' = o.resp
               /\ disk' = RemoveFile(StageFile(disk), remove_fails)
    /\ last' = [Request("preprocess") EXCEPT !.file = file, !.stored = DOMAIN cache]
    /\ UNCHANGED <<now, ticks, rng, probe, out, first, calls, ranked, threads>>

\* POST /api/predict with a form upload and its temporary file
StagedPredict(req, save_fails, remove_fails) ==
    /\ Idle
    /\ Cardinality(disk.created) < MaxFiles
    /\ \E o \in {predict_direct(req, cache, rng)} :
          /\ cache' = o.cache
          /\ IF ~req.file.present \/ ModelProblem(req.model_type) # ""
                \/ FileProblem(req.file) # ""
             THEN /\ rng' = o.rng /\ resp' = o.resp /\ disk' = disk
                  /\ last' = [Request("predict_direct") EXCEPT
                                !.model_type = req.model_type, !.file = req.file,
                                !.stored = DOMAIN cache, !.used = o.used]
             ELSE IF save_fails
             THEN /\ rng' = rng
                  /\ resp' = ErrorResp(500, "server_error",
                                       "An internal error occurred during prediction")
                  /\ disk' = StageFile(disk)
                  /\ last' = [Request("predict_direct") EXCEPT
                                !.model_type = req.model_type, !.file = req.file,
                                !.stored = DOMAIN cache]
             ELSE /\ rng' = o.rng /\ resp' = o.resp
                  /\ disk' = RemoveFile(StageFile(disk), remove_fails)
                  /\ last' = [Request("predict_direct") EXCEPT
                                !.model_type = req.model_type, !.file = req.file,
                                !.stored = DOMAIN cache, !.used = o.used]
    /\ UNCHANGED <<issued, returned, now, ticks, probe, out, first, calls, ranked, threads>>

NextFiles ==
    \/ \E file \in Files : \E save_fails, remove_fails \in BOOLEAN :
          StagedPreprocess(file, save_fails, remove_fails)
    \/ \E req \in DirectRequests : \E save_fails, remove_fails \in BOOLEAN :
          StagedPredict(req, save_fails, remove_fails)
    \/ SendResponse

SpecFiles == Init /\ [][NextFiles]_vars

\* ------------------------------------------------------------ properties
ValidLabel(rec) == rec.prediction \in {"yes", "no"}
ValidConfidence(rec) ==
    rec.confidence.k = "fin" /\ rec.confidence.v >= 50 /\ rec.confidence.v <= 100

\* C1: for every valid matrix and each of the four models, every record that
\* predict returns has a label yes or no and a confidence that is a number in
\* [0.5, 1.0].  (SpecEngine)
C1_LabelAndConfidenceInRange ==
    calls >= 1 =>
        \A i \in 1..Len(out.result.predictions) :
            ValidLabel(out.result.predictions[i]) /\ ValidConfidence(out.result.predictions[i])

\* C2: a model called again on the same matrix returns the same labels and
\* confidences as the first time, whatever other calls ran in between and left
\* in the generator.  (SpecEngine)
C2_SameMatrixSameResult == calls >= 1 => out.result = first.result

C2_Witness ==
    /\ calls = 2
    /\ out.others = 1
    /\ probe.model = "logistic_regression"
    /\ Len(out.result.predictions) = MaxRows
    /\ out.result = first.result

\* the identifiers of the rows of an uploaded table, as the claim words them
InputRowIds(table) ==
    IF \E i \in 1..Len(table.rows) : table.rows[i][1].t = "txt"
    THEN [i \in 1..Len(table.rows) |-> AsStr(table.rows[i][1])]
    ELSE [i \in 1..Len(table.rows) |-> PatientNames[i]]

GivenRowIds(used) ==
    IF used.patient_ids.has THEN used.patient_ids.ids
    ELSE [i \in 1..Len(used.df.rows) |-> PatientNames[i]]

\* C3: a predict request that gives the model a matrix of n rows answers with
\* exactly n records and patient_count n, the i-th record carrying the
\* identifier of the i-th row: the one supplied, or patient_i counted from 1.
C3_OneRecordPerRowInOrder ==
    last.used.reached =>
        LET n == Len(last.used.df.rows)
            want == IF last.op = "predict_direct"
                    THEN InputRowIds(last.file.table) ELSE GivenRowIds(last.used)
        IN /\ resp.success
           /\ resp.patient_count = n
           /\ Len(resp.predictions) = n
           /\ Len(want) = n
           /\ \A i \in 1..n : resp.predictions[i].patient_id = want[i]

C3_Witness ==
    /\ last.op = "predict_direct"
    /\ last.used.reached
    /\ ~last.used.patient_ids.has
    /\ Len(resp.predictions) = MaxRows
    /\ resp.predictions[MaxRows].patient_id = PatientNames[MaxRows]

\* the identifier of row i of a cache entry
EntryId(entry, i) ==
    IF entry.patient_ids.has THEN entry.patient_ids.ids[i] ELSE PatientNames[i]

ValidCachedPredict ==
    /\ last.op = "predict_cached"
    /\ last.cache_key # 0
    /\ ModelProblem(last.model_type) = ""

\* C4: a cached-mode predict on an unexpired key works on exactly the stored
\* rows whose identifier is in the filter set, all stored rows when no filter is
\* given, with the same identifiers and values and in the stored order.
C4_CacheReadIsFilteredStoredRows ==
    (ValidCachedPredict /\ last.pre = "live" /\ last.used.reached) =>
        LET entry == cache[last.cache_key]
            n == Len(entry.df.rows)
            wanted == SelectSeq([i \in 1..n |-> i],
                                LAMBDA i : ~last.patient_ids.given
                                           \/ EntryId(entry, i) \in last.patient_ids.ids)
        IN /\ last.used.df.columns = entry.df.columns
           /\ last.used.df.rows = [i \in 1..Len(wanted) |-> entry.df.rows[wanted[i]]]
           /\ GivenRowIds(last.used) = [i \in 1..Len(wanted) |-> EntryId(entry, wanted[i])]

\* C5: a cached-mode predict with a valid model name whose key has an entry
\* older than 3600 seconds, or no entry, fails with a cache error and predicts
\* nothing; and once a handler that reads or writes the cache has run, no entry
\* older than 3600 seconds is left.  (SpecClock)
C5_ExpiredOrMissingIsCacheError ==
    /\ (ValidCachedPredict /\ last.pre \in {"absent", "expired"}) =>
          /\ resp.error_type = "cache_error"
          /\ ~resp.success
          /\ resp.predictions = <<>>
          /\ ~last.used.reached
    /\ (ValidCachedPredict \/ last.op = "preprocess") =>
          \A key \in DOMAIN cache : now - cache[key].timestamp <= CACHE_EXPIRATION_SECONDS

C5_Witness ==
    /\ ValidCachedPredict
    /\ last.pre = "expired"
    /\ resp.error_type = "cache_error"
    /\ last.cache_key \notin DOMAIN cache
    /\ \E key \in DOMAIN cache : now - cache[key].timestamp = CACHE_EXPIRATION_SECONDS

\* the identifiers a cache entry stores
StoredIds(entry) == {entry.patient_ids.ids[i] : i \in 1..Len(entry.patient_ids.ids)}

\* C6: a cached-mode predict on an unexpired key whose supplied filter set has
\* no identifier in common with the stored ones fails with a validation error,
\* predicts nothing and leaves the entry as it was.
C6_DisjointFilterIsValidationError ==
    (/\ ValidCachedPredict
     /\ last.pre = "live"
     /\ last.patient_ids.given
     /\ last.patient_ids.ids \cap StoredIds(cache[last.cache_key]) = {}) =>
        /\ resp.error_type = "validation_error"
        /\ ~resp.success
        /\ resp.predictions = <<>>
        /\ DOMAIN cache = last.stored

\* the gene columns of an uploaded table that hold text no numeral can be read from
UncoercibleColumns(table) ==
    SelectSeq(SubSeq(table.header, 2, Len(table.header)),
              LAMBDA name : \E j \in 2..Len(table.header) :
                               /\ table.header[j] = name
                               /\ \E i \in 1..Len(table.rows) : table.rows[i][j].t = "txt")

HasIdColumn(table) ==
    /\ Len(table.rows) > 0
    /\ \E i \in 1..Len(table.rows) : table.rows[i][1].t = "txt"

\* C7: ingesting a table whose first column holds non-numeric identifiers and
\* of which some other columns hold text that is no number fails with a
\* validation error that names all those columns; nothing is cached.
C7_UncoercibleColumnsAreReported ==
    (/\ last.op = "preprocess"
     /\ FileProblem(last.file) = ""
     /\ HasIdColumn(last.file.table)
     /\ UncoercibleColumns(last.file.table) # <<>>) =>
        /\ resp.error_type = "validation_error"
        /\ resp.error_columns = UncoercibleColumns(last.file.table)
        /\ DOMAIN cache = last.stored

\* C8: preprocess of any CSV that ingestion accepts, with or without an
\* identifier column, succeeds: it stores one entry, returns its key and reports
\* patient_count rows with one preview record per row.
C8_AcceptedCsvIsPreprocessed ==
    (/\ last.op = "preprocess"
     /\ FileProblem(last.file) = ""
     /\ process_csv(last.file.table).ok) =>
        /\ resp.success
        /\ resp.cache_key \in DOMAIN cache
        /\ DOMAIN cache = last.stored \cup {resp.cache_key}
        /\ resp.cache_key \notin last.stored
        /\ resp.patient_count = Len(last.file.table.rows)
        /\ Len(resp.preview_data) = Len(last.file.table.rows)

\* the k-th smallest value of a column
KthSmallest(col, k) ==
    CHOOSE v \in {col[i] : i \in 1..Len(col)} :
        /\ Cardinality({i \in 1..Len(col) : col[i] < v}) < k
        /\ Cardinality({i \in 1..Len(col) : col[i] <= v}) >= k

\* twice the median of a column
MedianTimesTwo(col) ==
    KthSmallest(col, (Len(col) + 1) \div 2) + KthSmallest(col, (Len(col) \div 2) + 1)

\* C9: a record's subtype is negative exactly if its label is; a positive record
\* is endotype_1 if its first gene is at least the median of the first gene over
\* the rows of this call (after any filter), and endotype_2 otherwise.
C9_SubtypeByMedianOfTheCall ==
    last.used.reached =>
        \A i \in 1..Len(resp.predictions) :
            LET rec == resp.predictions[i]
                rows == last.used.df.rows
                median2 == MedianTimesTwo([r \in 1..Len(rows) |-> rows[r][1]])
            IN /\ (rec.endotype = "negative") <=> (rec.prediction = "no")
               /\ rec.prediction = "yes" =>
                     rec.endotype = IF 2 * rows[i][1] >= median2
                                    THEN "endotype_1" ELSE "endotype_2"

\* a filtered call in which a row is positive and below the median of the two
\* rows of the call
C9_Witness ==
    /\ last.op = "predict_cached"
    /\ last.used.reached
    /\ Len(resp.predictions) = 2
    /\ \E i \in 1..2 : resp.predictions[i].endotype = "endotype_2"
    /\ \E i \in 1..2 : resp.predictions[i].endotype = "endotype_1"

\* the sum of the squared differences of all pairs of a column: the variance up
\* to a factor common to the columns of one matrix
PairSpread(col) ==
    SumSeq([k \in 1..(Len(col) * Len(col)) |->
              LET i == ((k - 1) \div Len(col)) + 1
                  j == ((k - 1) % Len(col)) + 1
              IN (col[i] - col[j]) * (col[i] - col[j])])

ColumnIndex(df, name) == CHOOSE j \in 1..Len(df.columns) : df.columns[j] = name

\* column a comes before column b in the ranking
RanksBefore(df, a, b) ==
    LET va == PairSpread(Column(df.rows, a))
        vb == PairSpread(Column(df.rows, b))
    IN va > vb \/ (va = vb /\ a < b)

\* C10: the ranking of a matrix of c columns returns min(n, c) column names, by
\* descending variance, columns of equal variance in their column order.
C10_TopVariantOrder ==
    calls = 1 =>
        LET c == Len(probe.df.columns)
            idx == [i \in 1..Len(ranked) |-> ColumnIndex(probe.df, ranked[i])]
            chosen == {idx[i] : i \in 1..Len(ranked)}
        IN /\ Len(ranked) = Min(probe.n, c)
           /\ \A i \in 1..Len(ranked) : ranked[i] \in {probe.df.columns[j] : j \in 1..c}
           /\ \A i, j \in 1..Len(ranked) : i < j => RanksBefore(probe.df, idx[i], idx[j])
           /\ \A a \in chosen : \A b \in (1..c) \ chosen : RanksBefore(probe.df, a, b)

\* variances [A high, B low, C high] and n = 2 give [A, C]
C10_Witness ==
    /\ calls = 1
    /\ probe.n = 2
    /\ Len(probe.df.columns) = 3
    /\ Len(probe.df.rows) = 2
    /\ PairSpread(Column(probe.df.rows, 1)) > PairSpread(Column(probe.df.rows, 2))
    /\ PairSpread(Column(probe.df.rows, 1)) = PairSpread(Column(probe.df.rows, 3))
    /\ ranked = <<"A", "C">>

\* the ranking of a single-row matrix, whose variances are all undefined
C10_WitnessSingleRow ==
    /\ calls = 1
    /\ Len(probe.df.rows) = 1
    /\ Len(probe.df.columns) = 3
    /\ probe.n = TopN
    /\ Len(ranked) = 3

\* a row all of whose gene values are equal
ZeroSpread(row) == \A j \in 1..Len(row) : row[j] = row[1]

\* the middle of a model's confidence range, in hundredths: svm gives 0.60 to
\* 0.95, the others 0.55 to 0.95
MidConfidence(model) == IF model = "svm" THEN (60 + 95) \div 2 ELSE (55 + 95) \div 2

\* C13: for every model, a row of zero spread gets a confidence that is a number
\* in [0.5, 1.0] in the lower half of the model's confidence range.  (SpecEngine)
C13_ZeroSpreadGetsLowConfidence ==
    calls >= 1 =>
        \A i \in 1..Len(out.result.predictions) :
            ZeroSpread(probe.df.rows[i]) =>
                /\ ValidConfidence(out.result.predictions[i])
                /\ out.result.predictions[i].confidence.v <= MidConfidence(probe.model)

\* C15: every entry of the cache has a key that a successful preprocess response
\* carried to a client, and one identifier per row of its matrix.  (Spec)
C15_CacheHoldsOnlyReturnedEntries ==
    \A key \in DOMAIN cache :
        /\ key \in returned
        /\ cache[key].patient_ids.has
        /\ Len(cache[key].patient_ids.ids) = Len(cache[key].df.rows)

\* C11: the threads' accesses to the cache exclude each other: the dict does not
\* change under a sweep's iterator, no two sweeps are about to delete the same
\* key, a key found by a predict's membership check is there when it is read,
\* and no request ends in a server error.  (SpecThreads)
C11_CacheAccessIsExclusive ==
    /\ \A t \in Workers :
          /\ threads[t].pc = "next" => Cardinality(DOMAIN cache) = threads[t].size
          /\ threads[t].pc = "read" => threads[t].cache_key \in DOMAIN cache
          /\ threads[t].outcome # "server_error"
    /\ \A t, u \in Workers :
          t # u => \A i \in 1..Len(threads[t].keys_to_delete) :
                      \A j \in 1..Len(threads[u].keys_to_delete) :
                         threads[t].keys_to_delete[i] # threads[u].keys_to_delete[j]

\* what the call of a thread returns when no other call runs
Alone(call) ==
    [predictions |-> PredictLogic(call.model, call.df.rows, 0).predictions,
     confidences |-> PredictLogic(call.model, call.df.rows, 0).confidences]

\* C12: a predict call that ran while another did returns the labels and
\* confidences it returns running alone.  (SpecDraws)
C12_ConcurrentCallsAsAlone ==
    \A t \in Workers :
        threads[t].outcome = "ok" => threads[t].result = Alone(threads[t].call)

\* C14: the deletion of every temporary file that was created has been
\* attempted when its request has ended, and every deletion that failed was
\* logged.  (SpecFiles)
C14_StagedFileRemovalAlwaysAttempted ==
    /\ disk.created \subseteq disk.attempted
    /\ disk.warnings = Cardinality(disk.attempted \cap disk.files)

====
